---- MODULE Spec2Model ----
(***************************************************************************)
(* Verification model of the vendor request-signing layer of siliconFlow:  *)
(* the Baidu OAuth2 token cache (baidu_client.py), the Tencent TC3 signer  *)
(* and its speech-task poll loop (tencent_client.py), the Netease MD5      *)
(* signer (netease_client.py), the Aliyun ACS signer (aliyun_client.py),   *)
(* and what the OCR and image-tagging operations of the four clients make  *)
(* of the vendor's reply.                                                  *)
(*                                                                         *)
(* Hashes and HMACs are uninterpreted injective constructors (tagged       *)
(* tuples).  Strings that the code sorts or concatenates are sequences of  *)
(* one-character strings.  Time is in whole seconds.                       *)
(***************************************************************************)
EXTENDS Integers, Sequences, FiniteSets, TLC

VARIABLES
    access_token,   \* BaiduClient.access_token (NoToken is None)
    token_expiry,   \* BaiduClient.token_expiry
    now,            \* the wall clock read by time.time()
    grants,         \* grant requests sent to the token endpoint so far
    issued,         \* tokens the vendor has issued so far
    calls,          \* operations started so far
    ticks,          \* clock advances so far
    staleChecks,    \* checks of line 33 that found no valid cached token
    call,           \* per caller: position in the operation and its locals
    tc,             \* TencentClient.speech_recognition: position and locals
    sg,             \* signer harness: inputs drawn and results computed
    norm,           \* reply harness: the reply drawn and what the operation makes of it
    llm             \* LLM providers: their fields and the last generate_image call

baiduVars == <<access_token, token_expiry, now, grants, issued, calls, ticks,
               staleChecks, call>>
vars == <<access_token, token_expiry, now, grants, issued, calls, ticks,
          staleChecks, call, tc, sg, norm, llm>>

(***************************************************************************)
(* Bounds of the model.                                                    *)
(***************************************************************************)
MaxCalls == 3
MaxTicks == 3

Idle == <<>>

(***************************************************************************)
(* Baidu: OAuth2 client-credentials token cache.                           *)
(***************************************************************************)
NoToken == 0
SafetyMargin == 300
DefaultExpiresIn == 2592000

\* Lifetimes (seconds) a grant reply may advertise in expires_in.
ExpiresInChoices == {60, 301}

\* Clock advances between two steps.
Deltas == {1, 299, DefaultExpiresIn - SafetyMargin - 1}

BaiduOps == {"get_access_token", "ocr_general", "ocr_file", "image_recognition",
             "translate", "nlp_lexer", "speech_recognition"}

\* Replies of the token endpoint: a grant (with or without expires_in), a
\* rejection (JSON without access_token, with or without error_description) or
\* a body that is not JSON.
GrantReplies ==
    [kind : {"ok"}, has_expires_in : {TRUE}, expires_in : ExpiresInChoices,
     has_error_description : {FALSE}, error_description : {""}]
    \cup [kind : {"ok", "rejected", "notjson"}, has_expires_in : {FALSE}, expires_in : {0},
          has_error_description : {FALSE}, error_description : {""}]
    \cup [kind : {"rejected"}, has_expires_in : {FALSE}, expires_in : {0},
          has_error_description : {TRUE}, error_description : {"unknown client id"}]

\* Replies of a service endpoint: HTTP status and the form of the body ("ok" is
\* the success form of the operation, "error" the vendor's error form with its
\* message, "error_nomsg" the error form without a message).
ServiceReplies == [status : {200, 500}, body : {"ok", "error", "error_nomsg", "notjson"}]

\* line 48: the two literals of the message (in English here)
GrantFailedPrefix == "token grant failed: "
UnknownError == "unknown error"

\* the message with the vendor's description never read
GrantErrorMessageNoDescription(r) == GrantFailedPrefix \o UnknownError

\* line 48: the message of the exception
GrantErrorMessage(r) ==
    GrantFailedPrefix
    \o (IF r.has_error_description THEN r.error_description ELSE UnknownError)

NewCall ==
    [pc |-> "idle", op |-> "get_access_token", fresh |-> FALSE, expired |-> FALSE,
     tokAtCheck |-> NoToken, sent |-> 0, ttl |-> 0, newTok |-> NoToken,
     checkNow |-> 0, checkExpiry |-> 0,
     reply |-> [kind |-> "none", has_expires_in |-> FALSE, expires_in |-> 0,
                has_error_description |-> FALSE, error_description |-> ""],
     storedAt |-> 0, afterRejection |-> FALSE,
     ret |-> NoToken, err |-> "none", errmsg |-> "", svcSent |-> 0, svcToken |-> NoToken]

\* the check with the safety margin subtracted a second time
TokenValidDoubleMargin(tok, t, expiry) == tok /= NoToken /\ t < expiry - SafetyMargin

\* the check with <= in place of <
TokenValidAtExpiry(tok, t, expiry) == tok /= NoToken /\ t <= expiry

\* line 33: self.access_token and time.time() < self.token_expiry
TokenValid(tok, t, expiry) == tok /= NoToken /\ t < expiry

\* line 52: time.time() + result.get("expires_in", 2592000) - 300
ExpiresInOf(reply) ==
    IF reply.has_expires_in THEN reply.expires_in ELSE DefaultExpiresIn

\* the expiry with no margin taken off
NewExpiryNoMargin(t, ttl) == t + ttl

NewExpiry(t, ttl) == t + ttl - SafetyMargin

BaiduInit(CS) ==
    /\ access_token = NoToken
    /\ token_expiry = 0
    /\ now = 1000
    /\ grants = 0
    /\ issued = 0
    /\ calls = 0
    /\ ticks = 0
    /\ staleChecks = 0
    /\ call = [c \in CS |-> NewCall]
    /\ tc = Idle
    /\ sg = Idle
    /\ norm = Idle
    /\ llm = Idle

BaiduFrame == UNCHANGED <<tc, sg, norm, llm>>

\* time passes between two steps of the program
Tick(d) ==
    /\ ticks < MaxTicks
    /\ now' = now + d
    /\ ticks' = ticks + 1
    /\ UNCHANGED <<access_token, token_expiry, grants, issued, calls, staleChecks, call>>
    /\ BaiduFrame

\* a caller enters get_access_token, directly or as the first statement of an
\* operation (lines 65, 108, 157, 196, 233, 260)
BeginCall(c, o) ==
    /\ call[c].pc \in {"idle", "done"}
    /\ calls < MaxCalls
    /\ calls' = calls + 1
    /\ call' = [call EXCEPT ![c] = [NewCall EXCEPT !.pc = "check", !.op = o,
                                       !.afterRejection = call[c].err = "grant_rejected"]]
    /\ UNCHANGED <<access_token, token_expiry, now, grants, issued, ticks, staleChecks>>
    /\ BaiduFrame

\* line 33
CheckToken(c) ==
    /\ call[c].pc = "check"
    /\ LET valid == TokenValid(access_token, now, token_expiry) IN
       /\ call' = [call EXCEPT
                     ![c].pc = IF valid THEN "ret_cached" ELSE "grant",
                     ![c].fresh = (access_token /= NoToken /\ now < token_expiry),
                     ![c].expired = (access_token /= NoToken /\ now >= token_expiry),
                     ![c].tokAtCheck = access_token,
                     ![c].checkNow = now,
                     ![c].checkExpiry = token_expiry]
       /\ staleChecks' = IF valid THEN staleChecks ELSE staleChecks + 1
    /\ UNCHANGED <<access_token, token_expiry, now, grants, issued, calls, ticks>>
    /\ BaiduFrame

\* line 34
ReturnCached(c) ==
    /\ call[c].pc = "ret_cached"
    /\ call' = [call EXCEPT ![c].pc = "got_token", ![c].ret = access_token]
    /\ UNCHANGED <<access_token, token_expiry, now, grants, issued, calls, ticks, staleChecks>>
    /\ BaiduFrame

\* lines 37-44: the grant request leaves the client
SendGrant(c) ==
    /\ call[c].pc = "grant"
    /\ grants' = grants + 1
    /\ call' = [call EXCEPT ![c].pc = "await_grant", ![c].sent = @ + 1]
    /\ UNCHANGED <<access_token, token_expiry, now, issued, calls, ticks, staleChecks>>
    /\ BaiduFrame

\* the reply handled with the cache cleared when the grant is rejected
GrantReplyClearingCache(c, r) ==
    /\ call[c].pc = "await_grant"
    /\ CASE r.kind = "notjson" ->
              /\ call' = [call EXCEPT ![c].pc = "done", ![c].err = "JSONDecodeError",
                                      ![c].reply = r]
              /\ UNCHANGED <<access_token, issued>>
         [] r.kind = "rejected" ->
              /\ call' = [call EXCEPT ![c].pc = "done", ![c].err = "grant_rejected",
                                      ![c].errmsg = GrantErrorMessage(r),
                                      ![c].reply = r]
              /\ access_token' = NoToken
              /\ UNCHANGED issued
         [] r.kind = "ok" ->
              /\ issued' = issued + 1
              /\ access_token' = issued + 1
              /\ call' = [call EXCEPT ![c].pc = "store_expiry",
                                      ![c].ttl = ExpiresInOf(r),
                                      ![c].reply = r,
                                      ![c].newTok = issued + 1]
    /\ UNCHANGED <<token_expiry, now, grants, calls, ticks, staleChecks>>
    /\ BaiduFrame

\* lines 44-50: the reply arrives, is decoded, and a granted token is stored
GrantReply(c, r) ==
    /\ call[c].pc = "await_grant"
    /\ CASE r.kind = "notjson" ->
              /\ call' = [call EXCEPT ![c].pc = "done", ![c].err = "JSONDecodeError",
                                      ![c].reply = r]
              /\ UNCHANGED <<access_token, issued>>
         [] r.kind = "rejected" ->
              /\ call' = [call EXCEPT ![c].pc = "done", ![c].err = "grant_rejected",
                                      ![c].errmsg = GrantErrorMessage(r),
                                      ![c].reply = r]
              /\ UNCHANGED <<access_token, issued>>
         [] r.kind = "ok" ->
              /\ issued' = issued + 1
              /\ access_token' = issued + 1
              /\ call' = [call EXCEPT ![c].pc = "store_expiry",
                                      ![c].ttl = ExpiresInOf(r),
                                      ![c].reply = r,
                                      ![c].newTok = issued + 1]
    /\ UNCHANGED <<token_expiry, now, grants, calls, ticks, staleChecks>>
    /\ BaiduFrame

\* line 52
StoreExpiry(c) ==
    /\ call[c].pc = "store_expiry"
    /\ token_expiry' = NewExpiry(now, call[c].ttl)
    /\ call' = [call EXCEPT ![c].pc = "ret_new", ![c].storedAt = now]
    /\ UNCHANGED <<access_token, now, grants, issued, calls, ticks, staleChecks>>
    /\ BaiduFrame

\* line 54
ReturnNew(c) ==
    /\ call[c].pc = "ret_new"
    /\ call' = [call EXCEPT ![c].pc = "got_token", ![c].ret = access_token]
    /\ UNCHANGED <<access_token, token_expiry, now, grants, issued, calls, ticks, staleChecks>>
    /\ BaiduFrame

\* get_access_token was called directly: the caller has its token
FinishDirect(c) ==
    /\ call[c].pc = "got_token"
    /\ call[c].op = "get_access_token"
    /\ call' = [call EXCEPT ![c].pc = "done"]
    /\ UNCHANGED <<access_token, token_expiry, now, grants, issued, calls, ticks, staleChecks>>
    /\ BaiduFrame

\* the operations that read a local file after the token was obtained
\* (lines 76, 125, 168, 264); the others take text or a URL
ReadsFile(o) == o \in {"ocr_general", "ocr_file", "image_recognition", "speech_recognition"}

\* open() fails: the operation ends before its request is built
FileError(c) ==
    /\ call[c].pc = "got_token"
    /\ ReadsFile(call[c].op)
    /\ call' = [call EXCEPT ![c].pc = "done", ![c].err = "OSError"]
    /\ UNCHANGED <<access_token, token_expiry, now, grants, issued, calls, ticks, staleChecks>>
    /\ BaiduFrame

\* lines 66-81, 108-135, 158-173, 197-206, 234-239, 261-301: the service
\* request carries the token as the access_token query parameter
SendService(c) ==
    /\ call[c].pc = "got_token"
    /\ call[c].op /= "get_access_token"
    /\ call' = [call EXCEPT ![c].pc = "await_service", ![c].svcSent = @ + 1,
                            ![c].svcToken = call[c].ret]
    /\ UNCHANGED <<access_token, token_expiry, now, grants, issued, calls, ticks, staleChecks>>
    /\ BaiduFrame

\* what each operation makes of the service reply
\* (lines 84-96, 136-146, 176-183, 209-222, 242-249, 304-312)
BaiduServiceOutcome(o, r) ==
    IF o = "ocr_file"
    THEN CASE r.body = "notjson" -> "JSONDecodeError"
           [] r.body \in {"error", "error_nomsg"} -> "VendorError"
           [] OTHER -> "none"
    ELSE CASE r.status /= 200 -> "HTTPError"
           [] r.body = "notjson" -> "JSONDecodeError"
           [] r.body = "error" -> "VendorError"
           [] r.body = "error_nomsg" ->
                  IF o = "speech_recognition" THEN "VendorError" ELSE "KeyError"
           [] OTHER -> "none"

ServiceReply(c, r) ==
    /\ call[c].pc = "await_service"
    /\ call' = [call EXCEPT ![c].pc = "done", ![c].err = BaiduServiceOutcome(call[c].op, r)]
    /\ UNCHANGED <<access_token, token_expiry, now, grants, issued, calls, ticks, staleChecks>>
    /\ BaiduFrame

BaiduStep(c) ==
    \/ \E o \in BaiduOps : BeginCall(c, o)
    \/ CheckToken(c)
    \/ ReturnCached(c)
    \/ SendGrant(c)
    \/ \E r \in GrantReplies : GrantReply(c, r)
    \/ StoreExpiry(c)
    \/ ReturnNew(c)
    \/ FinishDirect(c)
    \/ FileError(c)
    \/ SendService(c)
    \/ \E r \in ServiceReplies : ServiceReply(c, r)

\* One caller at a time: the client used from a single thread.
OneCaller == {1}
\* Two call sites using the same client from two threads.
TwoCallers == {1, 2}

BaiduNext ==
    \/ \E d \in Deltas : Tick(d)
    \/ \E c \in OneCaller : BaiduStep(c)

SpecBaidu == BaiduInit(OneCaller) /\ [][BaiduNext]_vars

ConcStep(c) ==
    \/ BeginCall(c, "get_access_token")
    \/ CheckToken(c)
    \/ ReturnCached(c)
    \/ SendGrant(c)
    \/ \E r \in GrantReplies : GrantReply(c, r)
    \/ StoreExpiry(c)
    \/ ReturnNew(c)
    \/ FinishDirect(c)

BaiduConcNext ==
    \/ Tick(1)
    \/ \E c \in TwoCallers : ConcStep(c)

SpecBaiduConc == BaiduInit(TwoCallers) /\ [][BaiduConcNext]_vars

(***************************************************************************)
(* Library primitives. A digest is an uninterpreted, injective function of *)
(* its input, written as text around the input.                            *)
(***************************************************************************)
\* hashlib.sha256(x).hexdigest()
Sha256Hex(x) == "sha256hex(" \o x \o ")"
\* hmac.new(key, msg, hashlib.sha256).digest()
HmacSha256(key, msg) == "hmac256(" \o key \o "," \o msg \o ")"
\* hmac.new(key, msg, hashlib.sha256).hexdigest()
HmacSha256Hex(key, msg) == "hex(" \o HmacSha256(key, msg) \o ")"

Pad2(n) == IF n < 10 THEN "0" \o ToString(n) ELSE ToString(n)

\* the calendar date of day number z (days since 1970-01-01), as
\* time.strftime("%Y-%m-%d", ...) prints it
FormatDay(days) ==
    LET z   == days + 719468
        era == z \div 146097
        doe == z - era * 146097
        yoe == (doe - (doe \div 1460) + (doe \div 36524) - (doe \div 146096)) \div 365
        doy == doe - (365 * yoe + (yoe \div 4) - (yoe \div 100))
        mp  == (5 * doy + 2) \div 153
        d   == doy - ((153 * mp + 2) \div 5) + 1
        m   == IF mp < 10 THEN mp + 3 ELSE mp - 9
        y   == yoe + era * 400 + (IF m <= 2 THEN 1 ELSE 0)
    IN  ToString(y) \o "-" \o Pad2(m) \o "-" \o Pad2(d)

\* time.localtime(timestamp): the machine's zone is utcoffset seconds east of UTC
LocalDay(timestamp, utcoffset) == (timestamp + utcoffset) \div 86400

\* time.strftime("%Y-%m-%d", time.localtime(timestamp))
TencentDate(timestamp, utcoffset) == FormatDay(LocalDay(timestamp, utcoffset))

\* json.dumps of a flat dict, given as a sequence of fields in insertion order
RECURSIVE JsonFields(_)
JsonFields(fs) ==
    IF fs = <<>> THEN ""
    ELSE LET f == fs[1]
             v == IF f.quoted THEN "\"" \o f.v \o "\"" ELSE f.v
         IN  "\"" \o f.k \o "\": " \o v \o (IF Len(fs) > 1 THEN ", " ELSE "")
             \o JsonFields(Tail(fs))

JsonDumps(payload) == "{" \o JsonFields(payload) \o "}"

(***************************************************************************)
(* Tencent: TC3-HMAC-SHA256 signer.                                        *)
(***************************************************************************)
\* the chain with the service and the terminator in each other's place
TencentSigningKeySwapped(secret_key, date, service) ==
    LET secret_date    == HmacSha256("TC3" \o secret_key, date)
        secret_service == HmacSha256(secret_date, "tc3_request")
    IN  HmacSha256(secret_service, service)

\* the chain started from the bare prefix, the secret key left out
TencentSigningKeyNoSecret(secret_key, date, service) ==
    LET secret_date    == HmacSha256("TC3", date)
        secret_service == HmacSha256(secret_date, service)
    IN  HmacSha256(secret_service, "tc3_request")

\* lines 59-64: the chained signing key
TencentSigningKey(secret_key, date, service) ==
    LET secret_date    == HmacSha256("TC3" \o secret_key, date)
        secret_service == HmacSha256(secret_date, service)
    IN  HmacSha256(secret_service, "tc3_request")

\* lines 38-89: every local of _generate_signature; headers is what it returns
TencentSignLocals(self, params, service, endpoint, payload, t, utcoffset) ==
    LET timestamp == t
        date == TencentDate(timestamp, utcoffset)
        canonical_uri == "/"
        canonical_querystring == ""
        ct == "application/json; charset=utf-8"
        body == JsonDumps(payload)
        canonical_headers == "content-type:" \o ct \o "\nhost:" \o params["host"] \o "\n"
        signed_headers == "content-type;host"
        hashed_request_payload == Sha256Hex(body)
        canonical_request ==
            params["method"] \o "\n" \o canonical_uri \o "\n" \o canonical_querystring
            \o "\n" \o canonical_headers \o "\n" \o signed_headers \o "\n"
            \o hashed_request_payload
        algorithm == "TC3-HMAC-SHA256"
        credential_scope == date \o "/" \o service \o "/tc3_request"
        hashed_canonical_request == Sha256Hex(canonical_request)
        string_to_sign ==
            algorithm \o "\n" \o ToString(timestamp) \o "\n" \o credential_scope \o "\n"
            \o hashed_canonical_request
        secret_signing == TencentSigningKey(self.secret_key, date, service)
        signature == HmacSha256Hex(secret_signing, string_to_sign)
        authorization ==
            algorithm \o " " \o "Credential=" \o self.secret_id \o "/" \o credential_scope
            \o ", " \o "SignedHeaders=" \o signed_headers \o ", " \o "Signature=" \o signature
        base == [h \in {"Authorization", "Content-Type", "Host", "X-TC-Action",
                        "X-TC-Timestamp", "X-TC-Version", "X-TC-Region"} |->
                   CASE h = "Authorization" -> authorization
                     [] h = "Content-Type" -> ct
                     [] h = "Host" -> params["host"]
                     [] h = "X-TC-Action" -> endpoint
                     [] h = "X-TC-Timestamp" -> ToString(timestamp)
                     [] h = "X-TC-Version" -> params["version"]
                     [] h = "X-TC-Region" ->
                          IF "region" \in DOMAIN params THEN params["region"]
                          ELSE "ap-guangzhou"]
        headers == IF "token" \in DOMAIN params
                   THEN [h \in DOMAIN base \cup {"X-TC-Token"} |->
                           IF h = "X-TC-Token" THEN params["token"] ELSE base[h]]
                   ELSE base
    IN  [timestamp |-> timestamp, date |-> date, body |-> body,
         canonical_request |-> canonical_request,
         credential_scope |-> credential_scope, string_to_sign |-> string_to_sign,
         signature |-> signature, headers |-> headers]

\* line 26: _generate_signature(params, service, endpoint, payload)
TencentGenerateSignature(self, params, service, endpoint, payload, t, utcoffset) ==
    TencentSignLocals(self, params, service, endpoint, payload, t, utcoffset).headers

(***************************************************************************)
(* Tencent: speech_recognition, a task submit followed by the poll loop.   *)
(***************************************************************************)
PollAttempts == 10
PollInterval == 2

\* Zones the machine running the client may be in (seconds east of UTC).
UtcOffsets == {-18000, 0, 28800}
\* Instants at which an operation may start: 2023-12-31 23:59:50 UTC and
\* 2024-02-29 12:00:00 UTC.
StartTimes == {1704067190, 1709208000}
\* Seconds a request may take to be answered.
Latencies == {0, 1}

TencentSelf == [secret_id |-> "AKID", secret_key |-> "SK"]

\* lines 219-224
AsrParams ==
    [k \in {"method", "host", "version", "region"} |->
       CASE k = "method" -> "POST"
         [] k = "host" -> "asr.tencentcloudapi.com"
         [] k = "version" -> "2019-06-14"
         [] k = "region" -> "ap-guangzhou"]

\* lines 231-237, for an audio file whose base64 text is "QUJD"
SubmitPayload ==
    << [k |-> "EngineModelType", v |-> "16k_zh", quoted |-> TRUE],
       [k |-> "ChannelNum", v |-> "1", quoted |-> FALSE],
       [k |-> "ResTextFormat", v |-> "0", quoted |-> FALSE],
       [k |-> "SourceType", v |-> "1", quoted |-> FALSE],
       [k |-> "Data", v |-> "QUJD", quoted |-> TRUE] >>

\* line 268
QueryPayload(task_id) == << [k |-> "TaskId", v |-> task_id, quoted |-> FALSE] >>

\* lines 104-109
OcrParams ==
    [k \in {"method", "host", "version", "region"} |->
       CASE k = "method" -> "POST"
         [] k = "host" -> "ocr.tencentcloudapi.com"
         [] k = "version" -> "2018-11-19"
         [] k = "region" -> "ap-guangzhou"]

\* lines 160-165
TiiaParams ==
    [k \in {"method", "host", "version", "region"} |->
       CASE k = "method" -> "POST"
         [] k = "host" -> "tiia.tencentcloudapi.com"
         [] k = "version" -> "2019-05-29"
         [] k = "region" -> "ap-guangzhou"]

\* lines 112-119, 168-175: the payload of an image operation
ImagePayload(is_url) ==
    IF is_url THEN << [k |-> "ImageUrl", v |-> "http://h/i.png", quoted |-> TRUE] >>
    ELSE << [k |-> "ImageBase64", v |-> "QUJD", quoted |-> TRUE] >>

\* str(payload) of a flat dict
RECURSIVE ReprFields(_)
ReprFields(fs) ==
    IF fs = <<>> THEN ""
    ELSE LET f == fs[1]
             v == IF f.quoted THEN "'" \o f.v \o "'" ELSE f.v
         IN  "'" \o f.k \o "': " \o v \o (IF Len(fs) > 1 THEN ", " ELSE "")
             \o ReprFields(Tail(fs))

\* the body sent as str(payload)
TencentPostDataAsStr(payload) == "{" \o ReprFields(payload) \o "}"

\* lines 128, 184, 246, 275: data=json.dumps(payload)
TencentPostData(payload) == JsonDumps(payload)

\* lines 100-129, 156-185, 216-247: what one operation signs and what it posts
TencentRequest(self, op, is_url, t, utcoffset) ==
    LET params == CASE op = "ocr_general" -> OcrParams
                    [] op = "image_recognition" -> TiiaParams
                    [] OTHER -> AsrParams
        service == CASE op = "ocr_general" -> "ocr"
                     [] op = "image_recognition" -> "tiia"
                     [] OTHER -> "asr"
        endpoint == CASE op = "ocr_general" -> "GeneralBasicOCR"
                      [] op = "image_recognition" -> "DetectLabel"
                      [] OTHER -> "CreateRecTask"
        payload == IF op = "speech_recognition" THEN SubmitPayload ELSE ImagePayload(is_url)
    IN  [service |-> service,
         signed |-> TencentSignLocals(self, params, service, endpoint, payload, t, utcoffset),
         headers |-> TencentGenerateSignature(self, params, service, endpoint, payload,
                                              t, utcoffset),
         data |-> TencentPostData(payload)]

\* Replies to the submit request: HTTP status and form of the body.
\*   notjson: not JSON; noenv: JSON without Response; nodata: Response without
\*   Data; baddata: Data is null; notask: Data without TaskId; task0: TaskId 0;
\*   task: TaskId 7.
SubmitReplies ==
    [status : {200, 500},
     body : {"notjson", "noenv", "nodata", "baddata", "notask", "task0", "task"}]

\* Replies to a status query: as above, and st0..st3: Data.Status 0..3
\* (st2 carries Result "hello"), st2nores: Status 2 without Result.
PollReplies ==
    [status : {200, 500},
     body : {"notjson", "noenv", "nodata", "baddata", "st0", "st1", "st2", "st2nores", "st3"}]

NoHeaders == [h \in {} |-> ""]

TencentIdle ==
    [pc |-> "idle", i |-> 0, queries |-> 0, waits |-> 0, requests |-> 0, signs |-> 0,
     outcome |-> "none", result |-> "", task_id |-> "", headers |-> NoHeaders,
     body |-> "", terminalSeen |-> FALSE, lastStatus |-> "", httpFailed |-> FALSE,
     sentAfterFail |-> 0, queriesAfterTerminal |-> 0,
     submitReply |-> [status |-> 0, body |-> ""],
     sentAt |-> 0, prevSentAt |-> 0, prevHeaders |-> NoHeaders, submitHeaders |-> NoHeaders]

BaiduUnused ==
    /\ access_token = NoToken
    /\ token_expiry = 0
    /\ now = 0
    /\ grants = 0
    /\ issued = 0
    /\ calls = 0
    /\ ticks = 0
    /\ staleChecks = 0
    /\ call = Idle

TencentInit ==
    /\ BaiduUnused
    /\ sg = Idle
    /\ norm = Idle
    /\ llm = Idle
    /\ \E t0 \in StartTimes, z \in UtcOffsets :
          tc = [TencentIdle EXCEPT !.pc = "start"] @@ [clock |-> t0, utcoffset |-> z]

TencentFrame == UNCHANGED <<baiduVars, sg, norm, llm>>

\* lines 226-228: open() and read the audio file
TReadFile(ok) ==
    /\ tc.pc = "start"
    /\ tc' = IF ok THEN [tc EXCEPT !.pc = "submit"]
             ELSE [tc EXCEPT !.pc = "done", !.outcome = "OSError"]
    /\ TencentFrame

\* a request that leaves with the headers of the request before it
SendSignedReusingHeaders(endpoint, payload, nextpc) ==
    LET loc == TencentSignLocals(TencentSelf, AsrParams, "asr", endpoint, payload,
                                 tc.clock, tc.utcoffset)
        first == tc.requests = 0
    IN  [tc EXCEPT !.pc = nextpc,
                   !.signs = IF first THEN @ + 1 ELSE @,
                   !.requests = @ + 1,
                   !.headers = IF first THEN loc.headers ELSE @,
                   !.body = TencentPostData(payload),
                   !.sentAt = tc.clock,
                   !.prevSentAt = tc.sentAt,
                   !.prevHeaders = tc.headers,
                   !.submitHeaders = IF first THEN loc.headers ELSE @,
                   !.sentAfterFail = IF tc.httpFailed THEN @ + 1 ELSE @,
                   !.queriesAfterTerminal = IF tc.terminalSeen THEN @ + 1 ELSE @]

\* one request leaves the client, signed by its own call of the signer
SendSigned(endpoint, payload, nextpc) ==
    LET loc == TencentSignLocals(TencentSelf, AsrParams, "asr", endpoint, payload,
                                 tc.clock, tc.utcoffset)
    IN  [tc EXCEPT !.pc = nextpc,
                   !.signs = @ + 1,
                   !.requests = @ + 1,
                   !.headers = TencentGenerateSignature(TencentSelf, AsrParams, "asr",
                                   endpoint, payload, tc.clock, tc.utcoffset),
                   !.body = TencentPostData(payload),
                   !.sentAt = tc.clock,
                   !.prevSentAt = tc.sentAt,
                   !.prevHeaders = tc.headers,
                   !.submitHeaders = IF tc.requests = 0 THEN loc.headers ELSE @,
                   !.sentAfterFail = IF tc.httpFailed THEN @ + 1 ELSE @,
                   !.queriesAfterTerminal = IF tc.terminalSeen THEN @ + 1 ELSE @]

\* lines 239-247
TSubmit ==
    /\ tc.pc = "submit"
    /\ tc' = SendSigned("CreateRecTask", SubmitPayload, "await_submit")
    /\ TencentFrame

\* the submit reply handled without the test of the task id
SubmitOutcomeNoTaskCheck(r) ==
    CASE r.status /= 200 -> "HTTPError"
      [] r.body = "notjson" -> "JSONDecodeError"
      [] r.body = "noenv" -> "VendorError"
      [] r.body = "baddata" -> "AttributeError"
      [] OTHER -> "none"

\* lines 249-260: what the operation makes of the submit reply
SubmitOutcome(r) ==
    CASE r.status /= 200 -> "HTTPError"
      [] r.body = "notjson" -> "JSONDecodeError"
      [] r.body = "noenv" -> "VendorError"
      [] r.body = "baddata" -> "AttributeError"
      [] r.body \in {"nodata", "notask", "task0"} -> "NoTaskId"
      [] OTHER -> "none"

TSubmitReply(r, lat) ==
    /\ tc.pc = "await_submit"
    /\ LET out == SubmitOutcome(r) IN
       tc' = [tc EXCEPT !.clock = @ + lat,
                        !.httpFailed = @ \/ r.status /= 200,
                        !.pc = IF out = "none" THEN "loop" ELSE "done",
                        !.outcome = out,
                        !.submitReply = r,
                        !.task_id = IF out = "none" /\ r.body = "task" THEN "7" ELSE @]
    /\ TencentFrame

\* line 263: for _ in range(10), and line 292 once the range is exhausted
TLoop ==
    /\ tc.pc = "loop"
    /\ tc' = IF tc.i < PollAttempts
             THEN [tc EXCEPT !.pc = "sleep", !.i = @ + 1]
             ELSE [tc EXCEPT !.pc = "done", !.outcome = "Timeout"]
    /\ TencentFrame

\* line 264: time.sleep(2)
TSleep ==
    /\ tc.pc = "sleep"
    /\ tc' = [tc EXCEPT !.pc = "query", !.waits = @ + 1, !.clock = @ + PollInterval]
    /\ TencentFrame

\* lines 266-276
TQuery ==
    /\ tc.pc = "query"
    /\ tc' = [SendSigned("DescribeTaskStatus", QueryPayload(tc.task_id), "await_query")
                EXCEPT !.queries = @ + 1]
    /\ TencentFrame

\* the loop without its branch for status 3
PollOutcomeNoFailed(r) ==
    CASE r.status /= 200 -> "continue"
      [] r.body = "notjson" -> "JSONDecodeError"
      [] r.body = "noenv" -> "continue"
      [] r.body = "baddata" -> "AttributeError"
      [] r.body \in {"st2", "st2nores"} -> "Success"
      [] OTHER -> "continue"

\* lines 278-290: what one pass of the loop makes of the status reply;
\* "continue" goes on to the next pass
PollOutcome(r) ==
    CASE r.status /= 200 -> "continue"
      [] r.body = "notjson" -> "JSONDecodeError"
      [] r.body = "noenv" -> "continue"
      [] r.body = "baddata" -> "AttributeError"
      [] r.body \in {"st2", "st2nores"} -> "Success"
      [] r.body = "st3" -> "TaskFailed"
      [] OTHER -> "continue"

\* line 288: query_result["Response"]["Data"].get("Result", "")
PollResult(r) == IF r.body = "st2" THEN "hello" ELSE ""

\* the reply reports status 2 or 3 (it is a 200 reply with the envelope)
ReportsTerminal(r) == r.status = 200 /\ r.body \in {"st2", "st2nores", "st3"}

TQueryReply(r, lat) ==
    /\ tc.pc = "await_query"
    /\ LET out == PollOutcome(r) IN
       tc' = [tc EXCEPT !.clock = @ + lat,
                        !.httpFailed = @ \/ r.status /= 200,
                        !.terminalSeen = @ \/ ReportsTerminal(r),
                        !.lastStatus = IF r.status = 200 THEN r.body ELSE "http",
                        !.pc = IF out = "continue" THEN "loop" ELSE "done",
                        !.outcome = IF out = "continue" THEN @ ELSE out,
                        !.result = IF out = "Success" THEN PollResult(r) ELSE @]
    /\ TencentFrame

TencentNext ==
    \/ \E ok \in BOOLEAN : TReadFile(ok)
    \/ TSubmit
    \/ \E r \in SubmitReplies, lat \in Latencies : TSubmitReply(r, lat)
    \/ TLoop
    \/ TSleep
    \/ TQuery
    \/ \E r \in PollReplies, lat \in Latencies : TQueryReply(r, lat)

SpecTencent == TencentInit /\ [][TencentNext]_vars

(***************************************************************************)
(* Text that the code sorts or encodes character by character is a         *)
(* sequence of one-character strings. A dict is the sequence of its        *)
(* <<key, value>> items in insertion order, with distinct keys.            *)
(***************************************************************************)
MaxParams == 3

\* ord() of the characters the model uses
CodePoint ==
    [c \in {" ", "%", "&", "/", "1", "2", "=", "B", "I", "S", "X", "a", "b", "c", "d",
            "e", "g", "i", "k", "l", "m", "n", "o", "p", "r", "s", "t", "u"} |->
       CASE c = " " -> 32 [] c = "%" -> 37 [] c = "&" -> 38 [] c = "/" -> 47
         [] c = "1" -> 49 [] c = "2" -> 50 [] c = "=" -> 61 [] c = "B" -> 66
         [] c = "I" -> 73 [] c = "S" -> 83 [] c = "X" -> 88 [] c = "a" -> 97
         [] c = "b" -> 98 [] c = "c" -> 99 [] c = "d" -> 100 [] c = "e" -> 101
         [] c = "g" -> 103 [] c = "i" -> 105 [] c = "k" -> 107 [] c = "l" -> 108
         [] c = "m" -> 109 [] c = "n" -> 110 [] c = "o" -> 111 [] c = "p" -> 112
         [] c = "r" -> 114 [] c = "s" -> 115 [] c = "t" -> 116 [] c = "u" -> 117]

\* s < t for two str values (by code point, a proper prefix first)
RECURSIVE StrLess(_, _)
StrLess(s, t) ==
    CASE t = <<>> -> FALSE
      [] s = <<>> -> TRUE
      [] CodePoint[s[1]] < CodePoint[t[1]] -> TRUE
      [] CodePoint[s[1]] > CodePoint[t[1]] -> FALSE
      [] OTHER -> StrLess(Tail(s), Tail(t))

\* sorted(items, key=lambda x: x[0]): a stable sort by key
RECURSIVE InsertByKey(_, _)
InsertByKey(item, sorted) ==
    IF sorted = <<>> THEN <<item>>
    ELSE IF StrLess(item[1], sorted[1][1]) THEN <<item>> \o sorted
    ELSE <<sorted[1]>> \o InsertByKey(item, Tail(sorted))

RECURSIVE SortedItems(_)
SortedItems(items) ==
    IF items = <<>> THEN <<>>
    ELSE InsertByKey(items[Len(items)], SortedItems(SubSeq(items, 1, Len(items) - 1)))

\* every dict with at most MaxParams items over the given keys and values
RECURSIVE DictsOfLen(_, _, _)
DictsOfLen(n, keys, values) ==
    IF n = 0 THEN {<<>>}
    ELSE {<<<<k, v>>>> \o d : k \in keys, v \in values, d \in DictsOfLen(n - 1, keys, values)}

HasDistinctKeys(d) == \A i, j \in 1..Len(d) : i /= j => d[i][1] /= d[j][1]

Dicts(keys, values) ==
    UNION {{d \in DictsOfLen(n, keys, values) : HasDistinctKeys(d)} : n \in 0..MaxParams}

\* the same items inserted in another order
Reorderings(d) ==
    {[i \in 1..Len(d) |-> d[f[i]]] :
        f \in {g \in [1..Len(d) -> 1..Len(d)] : \A i, j \in 1..Len(d) : i /= j => g[i] /= g[j]}}

(***************************************************************************)
(* Netease: MD5 concatenation signer.                                      *)
(***************************************************************************)
\* hashlib.md5(x).hexdigest()
Md5Hex(x) == <<"md5hex(">> \o x \o <<")">>

\* line 39, for one item: f"{key}{value}"
RECURSIVE ConcatItems(_)
ConcatItems(items) ==
    IF items = <<>> THEN <<>>
    ELSE items[1][1] \o items[1][2] \o ConcatItems(Tail(items))

\* param_str built from params.items() without the sort
NeteaseParamStrUnsorted(params) == ConcatItems(params)

\* lines 33-39: param_str
NeteaseParamStr(params) == ConcatItems(SortedItems(params))

\* line 42: the text that is hashed
NeteaseSignedText(params, secret_key) == secret_key \o NeteaseParamStr(params) \o secret_key

\* lines 23-44
NeteaseGenerateSignature(params, secret_key) == Md5Hex(NeteaseSignedText(params, secret_key))

\* the parameters without the nonce
NeteaseBaseParamsNoNonce(self, timestamp, nonce) ==
    << <<<<"a", "p", "p", "I", "d">>, self.api_key>>,
       <<<<"t", "i", "m", "e", "s", "t", "a", "m", "p">>, timestamp>> >>

\* lines 57-62, 112-116, 169-173: appId, timestamp, nonce
NeteaseBaseParams(self, timestamp, nonce) ==
    << <<<<"a", "p", "p", "I", "d">>, self.api_key>>,
       <<<<"t", "i", "m", "e", "s", "t", "a", "m", "p">>, timestamp>>,
       <<<<"n", "o", "n", "c", "e">>, nonce>> >>

\* lines 64-72, 118-126, 175-177: the field that carries the input
NeteasePayloadItem(op, is_url, data) ==
    CASE op = "speech_recognition" -> <<<<"a", "u", "d", "i", "o">>, data>>
      [] is_url -> <<<<"u", "r", "l">>, data>>
      [] OTHER -> <<<<"i", "m", "a", "g", "e">>, data>>

\* lines 57-82, 112-136, 169-188: the parameters at the signer call, the
\* signature, and the parameters posted
NeteaseRequest(self, op, is_url, data, timestamp, nonce) ==
    LET params == Append(NeteaseBaseParams(self, timestamp, nonce),
                         NeteasePayloadItem(op, is_url, data))
        signature == NeteaseGenerateSignature(params, self.secret_key)
    IN  [signed |-> params,
         signed_text |-> NeteaseSignedText(params, self.secret_key),
         signature |-> signature,
         transmitted |->
             Append(params, <<<<"s", "i", "g", "n", "a", "t", "u", "r", "e">>, signature>>)]

(***************************************************************************)
(* Aliyun: ACS HMAC-SHA1 signer.                                           *)
(***************************************************************************)
\* base64.b64encode(hmac.new(key, msg, hashlib.sha1).digest()).decode()
Base64HmacSha1(key, msg) == <<"b64hmacsha1(">> \o key \o <<",">> \o msg \o <<")">>

\* urllib.parse.quote(s) with its default safe="/"
QuoteChar(c) ==
    CASE c = " " -> <<"%", "2", "0">>
      [] c = "%" -> <<"%", "2", "5">>
      [] c = "&" -> <<"%", "2", "6">>
      [] c = "=" -> <<"%", "3", "D">>
      [] OTHER -> <<c>>

RECURSIVE Quote(_)
Quote(s) == IF s = <<>> THEN <<>> ELSE QuoteChar(s[1]) \o Quote(Tail(s))

\* lines 49-52: "&".join(f"{quote(k)}={quote(str(v))}" ...)
RECURSIVE JoinQuery(_)
JoinQuery(items) ==
    IF items = <<>> THEN <<>>
    ELSE Quote(items[1][1]) \o <<"=">> \o Quote(items[1][2])
         \o (IF Len(items) > 1 THEN <<"&">> ELSE <<>>) \o JoinQuery(Tail(items))

\* dict.update: a key already present keeps its place and takes the new value
RECURSIVE DictUpdate(_, _)
DictUpdate(d, more) ==
    IF more = <<>> THEN d
    ELSE LET k == more[1][1]
             v == more[1][2]
             d1 == IF \E i \in 1..Len(d) : d[i][1] = k
                   THEN [i \in 1..Len(d) |-> IF d[i][1] = k THEN <<k, v>> ELSE d[i]]
                   ELSE d \o <<<<k, v>>>>
         IN  DictUpdate(d1, Tail(more))

\* line 8 binds the name datetime to the class datetime.datetime, which has no
\* attribute datetime: evaluating datetime.datetime.utcnow() at line 44 raises
AliyunUtcNowRaises == TRUE

\* lines 32-95
AliyunGenerateSignature(access_key, access_secret, params, method, nonce, date) ==
    IF AliyunUtcNowRaises
    THEN [raised |-> TRUE, error |-> "AttributeError", canonical |-> <<>>,
          string_to_sign |-> <<>>, signature |-> <<>>, params |-> <<>>]
    ELSE LET canonicalized_query_string == JoinQuery(SortedItems(params))
             string_to_sign ==
                 method \o <<"&", "%", "2", "F", "&">> \o Quote(canonicalized_query_string)
             signature == Base64HmacSha1(access_secret \o <<"&">>, string_to_sign)
             auth_params ==
                 << <<<<"AccessKeyId">>, access_key>>,
                    <<<<"Signature">>, signature>>,
                    <<<<"SignatureMethod">>, <<"HMAC-SHA1">>>>,
                    <<<<"SignatureVersion">>, <<"1.0">>>>,
                    <<<<"SignatureNonce">>, nonce>>,
                    <<<<"Timestamp">>, date>>,
                    <<<<"Version">>, <<"2019-08-15">>>>,
                    <<<<"Format">>, <<"JSON">>>> >>
         IN  [raised |-> FALSE, error |-> "", canonical |-> canonicalized_query_string,
              string_to_sign |-> string_to_sign, signature |-> signature,
              params |-> DictUpdate(params, auth_params)]

(***************************************************************************)
(* The signers applied to inputs drawn from bounded sets.                  *)
(***************************************************************************)
Keys == {<<"a">>, <<"b">>, <<"B">>, <<"a", "b">>}
NeteaseValues == {<<"1">>, <<"2">>}
AliyunValues == {<<"X">>, <<"a", "/", "b", " ", "=">>}
Secrets == {<<"k">>, <<"S", "1">>}
Methods == {<<"POST">>, <<"GET">>}

\* 2023-12-31 11:33:20, 2023-12-31 23:59:59, 2024-01-01 00:00:00 and
\* 2024-02-29 20:00:00, all UTC
Timestamps == {1704022400, 1704067199, 1704067200, 1709236800}

TencentParamsChoices ==
    {AsrParams,
     [k \in {"method", "host", "version"} |-> AsrParams[k]],
     [k \in DOMAIN AsrParams \cup {"token"} |-> IF k = "token" THEN "TOK" ELSE AsrParams[k]]}

TencentPayloads == {QueryPayload("7"), SubmitPayload}

SignInit ==
    /\ BaiduUnused
    /\ tc = Idle
    /\ norm = Idle
    /\ llm = Idle
    /\ sg = [fn |-> "none"]

SignFrame == UNCHANGED <<baiduVars, tc, norm, llm>>

NeteaseSign(p, q, secret) ==
    /\ sg' = [fn |-> "netease", params |-> p, reordered |-> q, secret |-> secret,
              canonical |-> NeteaseParamStr(p), canonical2 |-> NeteaseParamStr(q),
              signed_text |-> NeteaseSignedText(p, secret),
              signature |-> NeteaseGenerateSignature(p, secret),
              signature2 |-> NeteaseGenerateSignature(q, secret)]
    /\ SignFrame

AliyunSign(p, q, secret, method) ==
    /\ sg' = [fn |-> "aliyun", params |-> p, reordered |-> q, secret |-> secret,
              method |-> method,
              out |-> AliyunGenerateSignature(<<"AK">>, secret, p, method, <<"n1">>, <<"T">>),
              out2 |-> AliyunGenerateSignature(<<"AK">>, secret, q, method, <<"n1">>, <<"T">>)]
    /\ SignFrame

\* two calls of _generate_signature on the same parameters
AliyunSignTwice(p, secret, method, n1, d1, n2, d2) ==
    /\ sg' = [fn |-> "aliyun2", params |-> p, secret |-> secret, method |-> method,
              nonce |-> n1, date |-> d1, nonce2 |-> n2, date2 |-> d2,
              out |-> AliyunGenerateSignature(<<"AK">>, secret, p, method, n1, d1),
              out2 |-> AliyunGenerateSignature(<<"AK">>, secret, p, method, n2, d2)]
    /\ SignFrame

TencentSign(self, params, service, payload, t, z) ==
    /\ sg' = [fn |-> "tencent", self |-> self, params |-> params, service |-> service,
              endpoint |-> "DescribeTaskStatus", payload |-> payload, t |-> t,
              utcoffset |-> z,
              loc |-> TencentSignLocals(self, params, service, "DescribeTaskStatus",
                                        payload, t, z),
              headers |-> TencentGenerateSignature(self, params, service,
                                        "DescribeTaskStatus", payload, t, z)]
    /\ SignFrame

\* two calls of _generate_signature at one frozen timestamp
TencentSignTwice(self, self2, params, service, service2, payload, payload2, t, z, z2) ==
    /\ sg' = [fn |-> "tencent2", self |-> self, self2 |-> self2, params |-> params,
              service |-> service, service2 |-> service2,
              payload |-> payload, payload2 |-> payload2, t |-> t,
              utcoffset |-> z, utcoffset2 |-> z2,
              loc |-> TencentSignLocals(self, params, service, "DescribeTaskStatus",
                                        payload, t, z),
              loc2 |-> TencentSignLocals(self2, params, service2, "DescribeTaskStatus",
                                         payload2, t, z2)]
    /\ SignFrame

NeteaseSelf == [api_key |-> <<"A", "K">>, secret_key |-> <<"k">>]
\* str(int(time.time() * 1000)) at two instants, and two nonces
NeteaseTimestamps == {<<"1", "1">>, <<"1", "2">>}
NeteaseNonces == {<<"a", "1">>, <<"b", "2">>}

\* one Netease operation called twice on the same input
NeteaseOperationTwice(op, is_url, t1, n1, t2, n2) ==
    /\ sg' = [fn |-> "netease_op", op |-> op, is_url |-> is_url, self |-> NeteaseSelf,
              data |-> <<"Q", "U", "J", "D">>,
              timestamp |-> t1, nonce |-> n1, timestamp2 |-> t2, nonce2 |-> n2,
              req |-> NeteaseRequest(NeteaseSelf, op, is_url, <<"Q", "U", "J", "D">>, t1, n1),
              req2 |-> NeteaseRequest(NeteaseSelf, op, is_url, <<"Q", "U", "J", "D">>, t2, n2)]
    /\ SignFrame

\* one Tencent operation builds its request
TencentOperation(self, op, is_url, t, z) ==
    /\ sg' = [fn |-> "tencent_op", self |-> self, op |-> op, is_url |-> is_url, t |-> t,
              utcoffset |-> z, req |-> TencentRequest(self, op, is_url, t, z)]
    /\ SignFrame

SignNext ==
    \/ /\ sg.fn = "none"
       /\ \E p \in Dicts(Keys, NeteaseValues), secret \in Secrets :
             \E q \in Reorderings(p) : NeteaseSign(p, q, secret)
    \/ /\ sg.fn = "none"
       /\ \E p \in Dicts(Keys, AliyunValues), secret \in Secrets, method \in Methods :
             \E q \in Reorderings(p) : AliyunSign(p, q, secret, method)
    \/ /\ sg.fn = "none"
       /\ \E key \in {"SK", "SK2"}, params \in TencentParamsChoices,
             service \in {"asr", "ocr"}, payload \in TencentPayloads,
             t \in Timestamps, z \in UtcOffsets :
             TencentSign([secret_id |-> "AKID", secret_key |-> key], params, service,
                         payload, t, z)
    \/ /\ sg.fn = "none"
       /\ \E key, key2 \in {"SK", "SK2"}, service, service2 \in {"asr", "ocr"},
             payload, payload2 \in TencentPayloads, t \in Timestamps,
             z, z2 \in UtcOffsets :
             TencentSignTwice([secret_id |-> "AKID", secret_key |-> key],
                              [secret_id |-> "AKID", secret_key |-> key2],
                              AsrParams, service, service2, payload, payload2, t, z, z2)
    \/ /\ sg.fn = "none"
       /\ \E op \in {"ocr_general", "image_recognition", "speech_recognition"},
             is_url \in BOOLEAN, t1, t2 \in NeteaseTimestamps, n1, n2 \in NeteaseNonces :
             NeteaseOperationTwice(op, is_url, t1, n1, t2, n2)
    \/ /\ sg.fn = "none"
       /\ \E key \in {"SK", "SK2"},
             op \in {"ocr_general", "image_recognition", "speech_recognition"},
             is_url \in BOOLEAN, t \in Timestamps, z \in UtcOffsets :
             TencentOperation([secret_id |-> "AKID", secret_key |-> key], op, is_url, t, z)
    \/ /\ sg.fn = "none"
       /\ \E p \in Dicts(Keys, AliyunValues), secret \in Secrets, method \in Methods,
             n1, n2 \in {<<"n1">>, <<"n2">>}, d1, d2 \in {<<"T">>, <<"T", "1">>} :
             n1 /= n2 /\ AliyunSignTwice(p, secret, method, n1, d1, n2, d2)

SpecSign == SignInit /\ [][SignNext]_vars

(***************************************************************************)
(* What each OCR and image-tagging operation makes of the vendor's reply.  *)
(* A reply is its HTTP status, the form of its body and, for the success   *)
(* form, the array the operation reads.  The forms: "ok" the success       *)
(* envelope; "error" the vendor's error form with its message;             *)
(* "error_nomsg" the error form without a message; "notjson" a body that   *)
(* is not JSON; "badshape" the success envelope with null where the array  *)
(* is expected.                                                            *)
(***************************************************************************)
MaxItems == 2

\* the literal returned when no text was found (in English here)
NoTextSentinel == "no text recognized"
\* the default keyword of a tag without a name (in English here)
UnknownKeyword == "unknown"

\* a number as a fraction
Number(n, d) == [num |-> n, den |-> d]
\* the default of .get("Confidence", 0)
Zero == Number(0, 1)
\* x / 100
DivideBy100(x) == Number(x.num, x.den * 100)

\* text blocks: with the text field, or without it
TextItems == [has_text : {TRUE}, text : {"a", "b"}] \cup [has_text : {FALSE}, text : {""}]

\* tags: name and confidence, each present or not; 87.5, 0, 100 and 150
TagItems ==
    [has_name : {TRUE}, name : {"cat", "dog"}, has_confidence : {TRUE},
     confidence : {Number(875, 10), Number(0, 1), Number(100, 1), Number(150, 1)}]
    \cup [has_name : {FALSE}, name : {""}, has_confidence : {TRUE},
          confidence : {Number(875, 10)}]
    \cup [has_name : {TRUE}, name : {"cat"}, has_confidence : {FALSE},
          confidence : {Zero}]

RECURSIVE SeqsOfLen(_, _)
SeqsOfLen(n, S) ==
    IF n = 0 THEN {<<>>} ELSE {<<x>> \o s : x \in S, s \in SeqsOfLen(n - 1, S)}

SeqsUpTo(n, S) == UNION {SeqsOfLen(k, S) : k \in 0..n}

Replies(items) ==
    [status : {200, 500}, form : {"ok"}, has_array : {TRUE}, array : SeqsUpTo(MaxItems, items)]
    \cup [status : {200, 500},
          form : {"ok", "error", "error_nomsg", "notjson", "badshape"},
          has_array : {FALSE}, array : {<<>>}]

OcrReplies == Replies(TextItems)
TagReplies == Replies(TagItems)

\* the message of the vendor in a reply of the form "error"
VendorMessage == "quota exceeded"

\* JSON null, returned as a value
Null == <<"null">>

Returned(v) == [raised |-> FALSE, error |-> "", message |-> "", value |-> v]
Raised(e, msg, empty) == [raised |-> TRUE, error |-> e, message |-> msg, value |-> empty]

\* raise Exception(f"...: HTTP {response.status_code}")
HttpError(r, empty) == Raised("HTTPError", "HTTP " \o ToString(r.status), empty)
\* response.json() on a body that is not JSON
DecodeError(empty) == Raised("JSONDecodeError", "", empty)
\* raise Exception(f"...: {result.get(<message key>, <default>)}")
VendorError(r, empty) ==
    Raised("VendorError", IF r.form = "error" THEN VendorMessage ELSE UnknownError, empty)
\* raise Exception(f"...: {result['error_msg']}")
VendorErrorStrict(r, empty) ==
    IF r.form = "error" THEN Raised("VendorError", VendorMessage, empty)
    ELSE Raised("KeyError", "error_msg", empty)
\* for item in None
NullArray(empty) == Raised("TypeError", "", empty)

IsErrorForm(r) == r.form \in {"error", "error_nomsg"}

\* "\n".join(lines)
RECURSIVE JoinLines(_)
JoinLines(lines) ==
    IF lines = <<>> THEN ""
    ELSE lines[1] \o (IF Len(lines) > 1 THEN "\n" ELSE "") \o JoinLines(Tail(lines))

\* [item.get(field, "") for item in array]
TextsWithDefault(array) ==
    [i \in 1..Len(array) |-> IF array[i].has_text THEN array[i].text ELSE ""]

\* [block["Text"] for block in array if "Text" in block]
RECURSIVE TextsPresent(_)
TextsPresent(array) ==
    IF array = <<>> THEN <<>>
    ELSE (IF array[1].has_text THEN <<array[1].text>> ELSE <<>>) \o TextsPresent(Tail(array))

\* "\n".join(lines) if lines else the sentinel
JoinOrSentinel(lines) == IF lines /= <<>> THEN JoinLines(lines) ELSE NoTextSentinel

\* aliyun_client.py lines 126-154: sign, send, read the reply (the signer
\* raises before it reads its parameters, so one of them stands for all)
AliyunOcrGeneral(r) ==
    LET signed == AliyunGenerateSignature(<<"AK">>, <<"k">>,
                      << <<<<"Action">>, <<"RecognizeGeneral">>>> >>, <<"POST">>,
                      <<"n1">>, <<"T">>)
    IN  CASE signed.raised -> Raised(signed.error, "", "")
          [] r.status /= 200 -> HttpError(r, "")
          [] r.form = "notjson" -> DecodeError("")
          [] IsErrorForm(r) -> VendorError(r, "")
          [] r.form = "badshape" -> NullArray("")
          [] OTHER -> Returned(JoinOrSentinel(TextsPresent(r.array)))

\* tencent_client.py lines 131-145
TencentOcrGeneral(r) ==
    CASE r.status /= 200 -> HttpError(r, "")
      [] r.form = "notjson" -> DecodeError("")
      [] IsErrorForm(r) -> VendorError(r, "")
      [] r.form = "badshape" -> NullArray("")
      [] OTHER -> Returned(JoinOrSentinel(TextsWithDefault(r.array)))

\* netease_client.py lines 85-98
NeteaseOcrGeneral(r) ==
    CASE r.status /= 200 -> HttpError(r, "")
      [] r.form = "notjson" -> DecodeError("")
      [] IsErrorForm(r) -> VendorError(r, "")
      [] r.form = "badshape" -> NullArray("")
      [] OTHER -> Returned(JoinOrSentinel(TextsWithDefault(r.array)))

\* baidu_client.py lines 84-96: the join is returned as it is
BaiduOcrGeneral(r) ==
    CASE r.status /= 200 -> HttpError(r, "")
      [] r.form = "notjson" -> DecodeError("")
      [] IsErrorForm(r) -> VendorErrorStrict(r, "")
      [] r.form = "badshape" -> NullArray("")
      [] OTHER -> Returned(JoinLines(TextsWithDefault(r.array)))

\* baidu_client.py lines 136-146: no status check; item["words"]; the sentinel
\* only when the key words_result is absent
BaiduOcrFile(r) ==
    CASE r.form = "notjson" -> DecodeError("")
      [] IsErrorForm(r) -> VendorError(r, "")
      [] r.form = "badshape" -> NullArray("")
      [] ~r.has_array -> Returned(NoTextSentinel)
      [] \E i \in 1..Len(r.array) : ~r.array[i].has_text -> Raised("KeyError", "words", "")
      [] OTHER -> Returned(JoinLines(TextsWithDefault(r.array)))

\* aliyun_client.py lines 206-213 and tencent_client.py lines 196-202
ScaledTags(array) ==
    [i \in 1..Len(array) |->
        [keyword |-> IF array[i].has_name THEN array[i].name ELSE UnknownKeyword,
         score |-> DivideBy100(IF array[i].has_confidence THEN array[i].confidence
                               ELSE Zero)]]

\* netease_client.py lines 148-153: the confidence as reported
PlainTags(array) ==
    [i \in 1..Len(array) |->
        [keyword |-> IF array[i].has_name THEN array[i].name ELSE UnknownKeyword,
         score |-> IF array[i].has_confidence THEN array[i].confidence ELSE Zero]]

\* aliyun_client.py lines 185-215
AliyunImageRecognition(r) ==
    LET signed == AliyunGenerateSignature(<<"AK">>, <<"k">>,
                      << <<<<"Action">>, <<"TaggingImage">>>> >>, <<"POST">>,
                      <<"n1">>, <<"T">>)
    IN  CASE signed.raised -> Raised(signed.error, "", <<>>)
          [] r.status /= 200 -> HttpError(r, <<>>)
          [] r.form = "notjson" -> DecodeError(<<>>)
          [] IsErrorForm(r) -> VendorError(r, <<>>)
          [] r.form = "badshape" -> NullArray(<<>>)
          [] OTHER -> Returned(ScaledTags(r.array))

\* tencent_client.py lines 188-204
TencentImageRecognition(r) ==
    CASE r.status /= 200 -> HttpError(r, <<>>)
      [] r.form = "notjson" -> DecodeError(<<>>)
      [] IsErrorForm(r) -> VendorError(r, <<>>)
      [] r.form = "badshape" -> NullArray(<<>>)
      [] OTHER -> Returned(ScaledTags(r.array))

\* netease_client.py lines 139-155
NeteaseImageRecognition(r) ==
    CASE r.status /= 200 -> HttpError(r, <<>>)
      [] r.form = "notjson" -> DecodeError(<<>>)
      [] IsErrorForm(r) -> VendorError(r, <<>>)
      [] r.form = "badshape" -> NullArray(<<>>)
      [] OTHER -> Returned(PlainTags(r.array))

\* baidu_client.py lines 176-183: result.get("result", []) as the vendor sent it
BaiduImageRecognition(r) ==
    CASE r.status /= 200 -> HttpError(r, <<>>)
      [] r.form = "notjson" -> DecodeError(<<>>)
      [] IsErrorForm(r) -> VendorErrorStrict(r, <<>>)
      [] r.form = "badshape" -> Returned(Null)
      [] OTHER -> Returned(r.array)

\* whether the operation sends its input as a URL reference: the test
\* image_path.startswith(('http://', 'https://')) of ocr_general and
\* image_recognition, the argument url_param of BaiduClient.ocr_file, and
\* never for speech_recognition, which has no such test
InputAsUrl(client, op, is_url, url_param) ==
    CASE op = "speech_recognition" -> FALSE
      [] client = "baidu" /\ op = "ocr_file" -> url_param
      [] OTHER -> is_url

\* the operation calls the signer (AliyunClient only, here) before it opens
\* the file: speech_recognition asks _get_token first
SignsBeforeOpen(client, op) == client = "aliyun" /\ op = "speech_recognition"

\* the request an operation builds from its input, as far as it gets:
\* whether a file was opened, whether a request was sent, and which of the
\* URL reference field and the inline base64 field it holds
BuildRequest(client, op, is_url, url_param, file_ok) ==
    LET as_url == InputAsUrl(client, op, is_url, url_param)
        signer_raises == client = "aliyun" /\ AliyunUtcNowRaises
        opened == ~as_url /\ ~(SignsBeforeOpen(client, op) /\ signer_raises)
        error == CASE SignsBeforeOpen(client, op) /\ signer_raises -> "AttributeError"
                   [] opened /\ ~file_ok -> "OSError"
                   [] signer_raises -> "AttributeError"
                   [] OTHER -> ""
        sent == error = ""
    IN  [opened |-> opened, error |-> error, sent |-> sent,
         url_field |-> sent /\ as_url, inline_field |-> sent /\ ~as_url]

ReplyInit ==
    /\ BaiduUnused
    /\ tc = Idle
    /\ sg = Idle
    /\ llm = Idle
    /\ norm = [fn |-> "none"]

ReplyFrame == UNCHANGED <<baiduVars, tc, sg, llm>>

\* one OCR operation of one client runs and gets reply r
OcrGeneral(client, op, r) ==
    /\ norm' = [fn |-> "ocr", client |-> client, op |-> op, reply |-> r,
                out |-> CASE client = "aliyun" -> AliyunOcrGeneral(r)
                          [] client = "tencent" -> TencentOcrGeneral(r)
                          [] client = "netease" -> NeteaseOcrGeneral(r)
                          [] client = "baidu" /\ op = "ocr_general" -> BaiduOcrGeneral(r)
                          [] client = "baidu" /\ op = "ocr_file" -> BaiduOcrFile(r)]
    /\ ReplyFrame

\* image_recognition of one client runs and gets reply r
ImageRecognition(client, r) ==
    /\ norm' = [fn |-> "tags", client |-> client, op |-> "image_recognition", reply |-> r,
                out |-> CASE client = "aliyun" -> AliyunImageRecognition(r)
                          [] client = "tencent" -> TencentImageRecognition(r)
                          [] client = "netease" -> NeteaseImageRecognition(r)
                          [] client = "baidu" -> BaiduImageRecognition(r)]
    /\ ReplyFrame

\* an operation is called with an input (a URL or a path, the file there or
\* not) and builds its request
MakeRequest(client, op, is_url, url_param, file_ok) ==
    /\ norm' = [fn |-> "request", client |-> client, op |-> op, is_url |-> is_url,
                url_param |-> url_param, file_ok |-> file_ok,
                out |-> BuildRequest(client, op, is_url, url_param, file_ok)]
    /\ ReplyFrame

Clients == {"aliyun", "tencent", "netease", "baidu"}

ReplyNext ==
    \/ /\ norm.fn = "none"
       /\ \E client \in Clients, r \in OcrReplies : OcrGeneral(client, "ocr_general", r)
    \/ /\ norm.fn = "none"
       /\ \E r \in OcrReplies : OcrGeneral("baidu", "ocr_file", r)
    \/ /\ norm.fn = "none"
       /\ \E client \in Clients, r \in TagReplies : ImageRecognition(client, r)
    \/ /\ norm.fn = "none"
       /\ \E client \in Clients,
             op \in {"ocr_general", "image_recognition", "speech_recognition"},
             is_url, file_ok \in BOOLEAN :
             MakeRequest(client, op, is_url, FALSE, file_ok)
    \/ /\ norm.fn = "none"
       /\ \E is_url, url_param, file_ok \in BOOLEAN :
             MakeRequest("baidu", "ocr_file", is_url, url_param, file_ok)

SpecReply == ReplyInit /\ [][ReplyNext]_vars

(***************************************************************************)
(* llm_providers.py: generate_image of the providers.                      *)
(***************************************************************************)
\* providers whose generate_image only returns an error value
UnsupportedProviders == {"Gemini", "Anthropic", "Perplexity", "Ollama", "LMStudio"}
Providers == UnsupportedProviders \cup {"OpenAI"}
\* providers constructed with an api_key (the other two take a host)
KeyedProviders == {"OpenAI", "Gemini", "Anthropic", "Perplexity"}

\* api_key=None, or a key
NoKey == ""
ApiKeys == {NoKey, "sk-1"}
Prompts == {"", "a cat"}
\* options=None, or a dict
OptionChoices == {"None", "size"}

\* the name each provider gives itself in its message
DisplayName(p) ==
    CASE p = "Anthropic" -> "Claude"
      [] p = "LMStudio" -> "LM Studio"
      [] OTHER -> p

ErrorValue(msg) == [is_error |-> TRUE, text |-> msg]

\* lines 70-99: OpenAIProvider.generate_image
OpenAIGenerateImage(self, prompt, options, reply) ==
    IF self.api_key = NoKey
    THEN [result |-> ErrorValue("API key required"), sent |-> 0, self |-> self]
    ELSE [result |-> IF reply = "ok" THEN [is_error |-> FALSE, text |-> "image of " \o prompt]
                     ELSE ErrorValue("request failed"),
          sent |-> 1, self |-> self]

\* generate_image written as for a provider that has the capability
UnsupportedGenerateImageAsSupported(p, self, prompt, options, reply) ==
    OpenAIGenerateImage(self, prompt, options, reply)

\* lines 152-154, 210-212, 287-289, 334-336, 380-382 (messages in English here)
UnsupportedGenerateImage(p, self, prompt, options, reply) ==
    [result |-> ErrorValue(DisplayName(p) \o " does not support image generation"),
     sent |-> 0, self |-> self]

\* the constructors: the fields each provider holds
LlmInit ==
    /\ BaiduUnused
    /\ tc = Idle
    /\ sg = Idle
    /\ norm = Idle
    /\ \E keys \in [KeyedProviders -> ApiKeys] :
          llm = [fn |-> "none",
                 providers |-> [p \in Providers |->
                                  [api_key |-> IF p \in KeyedProviders THEN keys[p] ELSE NoKey]]]

LlmFrame == UNCHANGED <<baiduVars, tc, sg, norm>>

\* provider p is asked for an image
GenerateImage(p, prompt, options, reply) ==
    /\ LET self == llm.providers[p]
           out == IF p = "OpenAI" THEN OpenAIGenerateImage(self, prompt, options, reply)
                  ELSE UnsupportedGenerateImage(p, self, prompt, options, reply)
       IN  llm' = [fn |-> "generate_image", provider |-> p, prompt |-> prompt,
                   options |-> options, before |-> self, result |-> out.result,
                   sent |-> out.sent,
                   providers |-> [llm.providers EXCEPT ![p] = out.self]]
    /\ LlmFrame

LlmNext ==
    /\ llm.fn = "none"
    /\ \E p \in Providers, prompt \in Prompts, options \in OptionChoices,
          reply \in {"ok", "fail"} : GenerateImage(p, prompt, options, reply)

SpecLlm == LlmInit /\ [][LlmNext]_vars

\* C1: token cache reuse. A call whose check of the cache finds a granted token
\* at a time strictly before token_expiry sends no grant request and returns
\* (and attaches to its service request) the cached value; as long as only the
\* first call found the cache invalid, exactly one grant request was sent.
C1_TokenCacheReuse ==
    /\ \A c \in DOMAIN call :
          call[c].fresh =>
             /\ call[c].sent = 0
             /\ call[c].pc \in {"got_token", "await_service", "done"} =>
                    /\ call[c].ret = call[c].tokAtCheck
                    /\ call[c].ret = access_token
             /\ call[c].svcSent > 0 => call[c].svcToken = call[c].tokAtCheck
    /\ (issued >= 1 /\ staleChecks <= 1) => grants = 1

C1_Witness ==
    \E c \in DOMAIN call :
        /\ call[c].fresh /\ call[c].pc = "done" /\ call[c].op = "ocr_general"
        /\ call[c].svcSent = 1 /\ calls = 3 /\ grants = 1

\* C2: token cache refresh. A call whose check finds a cached token at or past
\* token_expiry sends exactly one grant request; when the grant issues a token
\* the cache holds the new value and the call returns it; the call never
\* returns the expired token.
C2_TokenCacheRefresh ==
    \A c \in DOMAIN call :
        call[c].expired =>
           /\ call[c].pc = "grant" => call[c].sent = 0
           /\ call[c].pc /= "grant" => call[c].sent = 1
           /\ call[c].pc \in {"store_expiry", "ret_new"} =>
                  access_token = call[c].newTok /\ call[c].newTok /= call[c].tokAtCheck
           /\ call[c].ret /= NoToken =>
                  /\ call[c].ret = call[c].newTok
                  /\ call[c].ret /= call[c].tokAtCheck
                  /\ call[c].ret = access_token
           /\ call[c].err \in {"grant_rejected", "JSONDecodeError"} /\ call[c].svcSent = 0 =>
                  call[c].ret = NoToken

C2_Witness ==
    \E c \in DOMAIN call :
        /\ call[c].expired /\ call[c].pc = "got_token" /\ call[c].sent = 1
        /\ call[c].tokAtCheck = 1 /\ call[c].ret = 2
        /\ call[c].checkNow = call[c].checkExpiry

\* C3: mutual exclusion of check-then-refresh. With two callers on one
\* client, the sequence from the check that finds no valid token to the end of
\* the refresh is a critical section: two callers never both have a grant
\* request sent and their refresh not yet returned, so two grant requests are
\* never sent for one missing token.
C3_GrantMutualExclusion ==
    \A c1, c2 \in DOMAIN call :
        c1 /= c2 =>
          ~ /\ call[c1].pc \in {"await_grant", "store_expiry", "ret_new"}
            /\ call[c2].pc \in {"await_grant", "store_expiry", "ret_new"}

\* C4: poll loop termination. After the task id was obtained at most 10 status
\* queries are sent, each preceded by one 2-second wait, and an operation that
\* ends without any reply reporting status 2 or 3 ends with the timeout error.
C4_PollLoopTimeout ==
    /\ tc.queries <= PollAttempts
    /\ tc.waits = tc.queries + (IF tc.pc = "query" THEN 1 ELSE 0)
    /\ (tc.pc = "done" /\ tc.task_id /= "" /\ ~tc.terminalSeen) => tc.outcome = "Timeout"

\* C5: poll loop terminal statuses. A reply with Status 2 ends the operation
\* successfully with that reply's Result text, a reply with Status 3 ends it
\* with the task-failed error, no status query follows either of them, and the
\* timeout error is produced only when no reply reported 2 or 3.
C5_PollTerminalStatuses ==
    /\ tc.lastStatus = "st2" =>
          tc.pc = "done" /\ tc.outcome = "Success" /\ tc.result = "hello"
    /\ tc.lastStatus = "st2nores" =>
          tc.pc = "done" /\ tc.outcome = "Success" /\ tc.result = ""
    /\ tc.lastStatus = "st3" => tc.pc = "done" /\ tc.outcome = "TaskFailed"
    /\ tc.terminalSeen => tc.lastStatus \in {"st2", "st2nores", "st3"}
    /\ tc.queriesAfterTerminal = 0
    /\ tc.outcome = "Timeout" => ~tc.terminalSeen /\ tc.queries = PollAttempts
    /\ tc.outcome \in {"Success", "TaskFailed"} => tc.terminalSeen

C5_Witness ==
    /\ tc.pc = "done" /\ tc.outcome = "Success" /\ tc.result = "hello"
    /\ tc.queries = 3 /\ tc.lastStatus = "st2"

\* C6: no automatic retry. Once a request of the operation got a non-200
\* reply the operation has ended with an error and has sent no further request.
C6_NoAutomaticRetry ==
    tc.httpFailed =>
       /\ tc.pc = "done"
       /\ tc.outcome \notin {"none", "Success"}
       /\ tc.sentAfterFail = 0

\* the items of a dict as a set
ItemSet(d) == {d[i] : i \in 1..Len(d)}

\* key followed by value for every item, the item with the least key first
RECURSIVE AscendingConcat(_)
AscendingConcat(items) ==
    IF items = {} THEN <<>>
    ELSE LET least == CHOOSE x \in items : \A y \in items \ {x} : StrLess(x[1], y[1])
         IN  least[1] \o least[2] \o AscendingConcat(items \ {least})

\* C7: MD5 signer result. The signature is hex(MD5(secret + C + secret)) with
\* C the concatenation of key and value of every item in ascending key order;
\* for {a: "1", b: "2"} and secret "k" the hashed text is "ka1b2k".
C7_Md5SignerResult ==
    sg.fn = "netease" =>
       /\ sg.signature = Md5Hex(sg.secret \o AscendingConcat(ItemSet(sg.params)) \o sg.secret)
       /\ (ItemSet(sg.params) = {<<<<"a">>, <<"1">>>>, <<<<"b">>, <<"2">>>>}
           /\ sg.secret = <<"k">>) =>
              /\ sg.signed_text = <<"k", "a", "1", "b", "2", "k">>
              /\ sg.signature = Md5Hex(<<"k", "a", "1", "b", "2", "k">>)

C7_Witness ==
    /\ sg.fn = "netease"
    /\ sg.params = << <<<<"b">>, <<"2">>>>, <<<<"a">>, <<"1">>>> >>
    /\ sg.secret = <<"k">>
    /\ sg.signature = Md5Hex(<<"k", "a", "1", "b", "2", "k">>)

\* C8: insertion-order independence. For the ACS signer and for the MD5
\* signer, the same items inserted in two orders give a canonical string and a
\* signature, and give the same ones.
C8_InsertionOrderIndependence ==
    /\ sg.fn = "netease" =>
          sg.canonical = sg.canonical2 /\ sg.signature = sg.signature2
    /\ sg.fn = "aliyun" =>
          /\ ~sg.out.raised /\ ~sg.out2.raised
          /\ sg.out.canonical = sg.out2.canonical
          /\ sg.out.signature = sg.out2.signature

\* C9: TC3 signature and header. Signature = hex(HMAC(k3, StringToSign)) with
\* k1 = HMAC("TC3" + secret, date), k2 = HMAC(k1, service),
\* k3 = HMAC(k2, "tc3_request"); StringToSign and the Authorization header hold
\* the same scope date/service/tc3_request; X-TC-Action, X-TC-Timestamp,
\* X-TC-Version and X-TC-Region are returned, and X-TC-Token exactly when the
\* parameters hold a token.
C9_Tc3SignatureAndHeader ==
    sg.fn = "tencent" =>
       LET scope == sg.loc.date \o "/" \o sg.service \o "/tc3_request"
           k1 == HmacSha256("TC3" \o sg.self.secret_key, sg.loc.date)
           k2 == HmacSha256(k1, sg.service)
           k3 == HmacSha256(k2, "tc3_request")
           sig == HmacSha256Hex(k3, sg.loc.string_to_sign)
       IN  /\ sg.loc.signature = sig
           /\ sg.loc.string_to_sign =
                 "TC3-HMAC-SHA256\n" \o ToString(sg.t) \o "\n" \o scope \o "\n"
                 \o Sha256Hex(sg.loc.canonical_request)
           /\ sg.headers["Authorization"] =
                 "TC3-HMAC-SHA256 Credential=" \o sg.self.secret_id \o "/" \o scope
                 \o ", SignedHeaders=content-type;host, Signature=" \o sig
           /\ sg.headers["X-TC-Action"] = sg.endpoint
           /\ sg.headers["X-TC-Timestamp"] = ToString(sg.t)
           /\ sg.headers["X-TC-Version"] = sg.params["version"]
           /\ sg.headers["X-TC-Region"] = "ap-guangzhou"
           /\ ("X-TC-Token" \in DOMAIN sg.headers) <=> ("token" \in DOMAIN sg.params)
           /\ "token" \in DOMAIN sg.params => sg.headers["X-TC-Token"] = sg.params["token"]

C9_Witness ==
    /\ sg.fn = "tencent"
    /\ "X-TC-Token" \in DOMAIN sg.headers
    /\ sg.service = "asr" /\ sg.t = 1709236800 /\ sg.utcoffset = 0
    /\ sg.loc.credential_scope = "2024-02-29/asr/tc3_request"
    /\ sg.headers["X-TC-Timestamp"] = "1709236800"

\* C10: the TC3 date is UTC. The date of the credential scope and of the
\* signing key is the UTC calendar date of the timestamp sent as
\* X-TC-Timestamp, in whatever zone the machine is.
C10_Tc3DateIsUtc ==
    sg.fn = "tencent" =>
       /\ sg.headers["X-TC-Timestamp"] = ToString(sg.t)
       /\ sg.loc.date = FormatDay(sg.t \div 86400)

\* C11: TC3 signature sensitivity. Two calls of the TC3 signer at one frozen
\* timestamp that differ in exactly one of secret key, service, date and
\* payload, everything else equal, return different Signature values.
C11_Tc3SignatureSensitivity ==
    sg.fn = "tencent2" =>
       LET differing ==
               {x \in {"secret", "service", "date", "payload"} :
                   CASE x = "secret" -> sg.self.secret_key /= sg.self2.secret_key
                     [] x = "service" -> sg.service /= sg.service2
                     [] x = "date" -> sg.loc.date /= sg.loc2.date
                     [] x = "payload" -> sg.payload /= sg.payload2}
       IN  Cardinality(differing) = 1 => sg.loc.signature /= sg.loc2.signature

C11_Witness ==
    /\ sg.fn = "tencent2"
    /\ sg.self = sg.self2 /\ sg.service = sg.service2 /\ sg.payload = sg.payload2
    /\ sg.t = 1704067199 /\ sg.utcoffset = 0 /\ sg.utcoffset2 = 28800
    /\ sg.loc.date = "2023-12-31" /\ sg.loc2.date = "2024-01-01"
    /\ sg.loc.signature /= sg.loc2.signature

\* the values a dict holds under key k (none, or one)
ValuesOf(d, k) == {d[i][2] : i \in {j \in 1..Len(d) : d[j][1] = k}}

\* C12: ACS signer contract. For every parameter map and method the ACS signer
\* completes without raising, and the parameters it returns hold every
\* business parameter with its value plus AccessKeyId, Signature,
\* SignatureMethod = HMAC-SHA1, SignatureVersion = 1.0, SignatureNonce,
\* Timestamp, Version and Format.
C12_AcsSignerContract ==
    sg.fn = "aliyun" =>
       /\ ~sg.out.raised
       /\ \A i \in 1..Len(sg.params) :
             ValuesOf(sg.out.params, sg.params[i][1]) = {sg.params[i][2]}
       /\ ValuesOf(sg.out.params, <<"AccessKeyId">>) = {<<"AK">>}
       /\ ValuesOf(sg.out.params, <<"Signature">>) = {sg.out.signature}
       /\ ValuesOf(sg.out.params, <<"SignatureMethod">>) = {<<"HMAC-SHA1">>}
       /\ ValuesOf(sg.out.params, <<"SignatureVersion">>) = {<<"1.0">>}
       /\ \A k \in {"SignatureNonce", "Timestamp", "Version", "Format"} :
             ValuesOf(sg.out.params, <<k>>) /= {}

\* RFC 3986 percent-encoding: every character outside the unreserved set
\* (letters, digits, "-", "_", ".", "~") is encoded, "/" included
Rfc3986Char(c) ==
    CASE c = " " -> <<"%", "2", "0">>
      [] c = "%" -> <<"%", "2", "5">>
      [] c = "&" -> <<"%", "2", "6">>
      [] c = "/" -> <<"%", "2", "F">>
      [] c = "=" -> <<"%", "3", "D">>
      [] OTHER -> <<c>>

RECURSIVE Rfc3986(_)
Rfc3986(s) == IF s = <<>> THEN <<>> ELSE Rfc3986Char(s[1]) \o Rfc3986(Tail(s))

\* k1=v1&k2=v2... of the encoded items, the item with the least key first
RECURSIVE AscendingQuery(_)
AscendingQuery(items) ==
    IF items = {} THEN <<>>
    ELSE LET least == CHOOSE x \in items : \A y \in items \ {x} : StrLess(x[1], y[1])
         IN  Rfc3986(least[1]) \o <<"=">> \o Rfc3986(least[2])
             \o (IF items = {least} THEN <<>> ELSE <<"&">>)
             \o AscendingQuery(items \ {least})

\* C13: ACS string to sign. The ACS signer gives the canonical query string
\* k1=v1&k2=v2 of the parameters in ascending key order with every key and
\* value percent-encoded per RFC 3986 ("/" encoded too),
\* StringToSign = METHOD & %2F & percent-encode(canonical query string), and
\* Signature = base64(HMAC-SHA1(secret + "&", StringToSign)).
C13_AcsStringToSign ==
    sg.fn = "aliyun" =>
       LET canon == AscendingQuery(ItemSet(sg.params))
           sts == sg.method \o <<"&", "%", "2", "F", "&">> \o Rfc3986(canon)
       IN  /\ ~sg.out.raised
           /\ sg.out.canonical = canon
           /\ sg.out.string_to_sign = sts
           /\ sg.out.signature = Base64HmacSha1(sg.secret \o <<"&">>, sts)

\* C14: ACS signed set equals transmitted set. Every Aliyun signing yields
\* the set of parameters to transmit, and each of them other than Signature
\* is an item of the parameters the canonical string was built from, with the
\* value it is sent with.
C14_AcsSignedEqualsTransmitted ==
    sg.fn = "aliyun" =>
       /\ ~sg.out.raised
       /\ \A i \in 1..Len(sg.out.params) :
             sg.out.params[i][1] /= <<"Signature">> =>
                sg.out.params[i] \in ItemSet(sg.params)

\* C15: token expiry margin. Once a call has stored the expiry of a granted
\* token at time t, token_expiry = t + expires_in - 300 with expires_in the
\* lifetime in the grant reply, or 2592000 when the reply has none: exactly 300
\* seconds before the expiry the vendor advertised.
C15_TokenExpiryMargin ==
    \A c \in DOMAIN call :
        (call[c].reply.kind = "ok" /\ call[c].pc \notin {"await_grant", "store_expiry"}) =>
           LET expires_in == IF call[c].reply.has_expires_in
                             THEN call[c].reply.expires_in ELSE 2592000
               advertised == call[c].storedAt + expires_in
           IN  /\ token_expiry = call[c].storedAt + expires_in - 300
               /\ advertised - token_expiry = 300

C15_Witness ==
    \E c \in DOMAIN call :
        /\ call[c].pc = "ret_new" /\ ~call[c].reply.has_expires_in
        /\ call[c].storedAt = 1001 /\ call[c].checkNow = 1000
        /\ token_expiry = 2592701

\* C16: token validity at hand-out. Whenever get_access_token returns a
\* token, from the cache or freshly granted, the clock at the return is
\* strictly before token_expiry, whatever positive expires_in the grant reply
\* advertised.
C16_TokenValidAtHandOut ==
    [][\A c \in DOMAIN call :
          (call[c].ret = NoToken /\ call'[c].ret /= NoToken) => now' < token_expiry']_vars

\* C17: grant rejection. A call whose grant reply holds no access_token has
\* ended, for whichever operation made it, with the grant error; the error
\* carries the error_description of the reply; no token was returned and no
\* service request was sent.
C17_GrantRejection ==
    \A c \in DOMAIN call :
        call[c].reply.kind = "rejected" =>
           /\ call[c].pc = "done"
           /\ call[c].err = "grant_rejected"
           /\ call[c].reply.has_error_description =>
                  call[c].errmsg = "token grant failed: " \o call[c].reply.error_description
           /\ call[c].ret = NoToken
           /\ call[c].svcSent = 0

C17_Witness ==
    \E c \in DOMAIN call :
        /\ call[c].op = "translate" /\ call[c].reply.kind = "rejected"
        /\ call[c].expired /\ call[c].sent = 1
        /\ call[c].errmsg = "token grant failed: unknown client id"
        /\ call[c].pc = "done" /\ call[c].svcSent = 0

\* the reply is a success: HTTP 200 and the vendor's success envelope
SuccessfulReply == norm.reply.status = 200 /\ norm.reply.form = "ok"

\* the array the operation reads is absent from the reply, or empty
NothingFound == ~norm.reply.has_array \/ norm.reply.array = <<>>

\* C18: OCR sentinel. For each of the five OCR operations a successful reply
\* with the text-block array empty or absent returns the "no text recognized"
\* sentinel, not an empty string and not an error; a non-empty array whose
\* blocks all hold text returns the texts joined by newline in array order.
C18_OcrSentinel ==
    (norm.fn = "ocr" /\ SuccessfulReply) =>
       /\ ~norm.out.raised
       /\ NothingFound =>
              norm.out.value = "no text recognized" /\ norm.out.value /= ""
       /\ (~NothingFound /\ \A i \in 1..Len(norm.reply.array) : norm.reply.array[i].has_text) =>
              norm.out.value =
                 JoinLines([i \in 1..Len(norm.reply.array) |-> norm.reply.array[i].text])

\* C19: empty tag list. For image_recognition of each of the four clients a
\* successful reply with the tag array empty or absent returns the empty
\* list and raises nothing.
C19_EmptyTagList ==
    (norm.fn = "tags" /\ SuccessfulReply /\ NothingFound) =>
       ~norm.out.raised /\ norm.out.value = <<>>

\* C20: confidence normalization. For Aliyun and Tencent each returned tag's
\* score is the reported confidence divided by 100 (87.5 gives 0.875, a missing
\* confidence gives 0), the score is in [0,1] when the confidence is in
\* [0,100], and the tags are returned in the vendor's order.
C20_ConfidenceNormalization ==
    (norm.fn = "tags" /\ norm.client \in {"aliyun", "tencent"} /\ SuccessfulReply) =>
       /\ ~norm.out.raised
       /\ Len(norm.out.value) = Len(norm.reply.array)
       /\ \A i \in 1..Len(norm.reply.array) :
             LET tag == norm.reply.array[i]
                 c == IF tag.has_confidence THEN tag.confidence ELSE [num |-> 0, den |-> 1]
                 score == norm.out.value[i].score
             IN  /\ score.den > 0
                 /\ score.num * c.den * 100 = c.num * score.den
                 /\ (c.num = 875 /\ c.den = 10) => score.num * 1000 = 875 * score.den
                 /\ ~tag.has_confidence => score.num = 0
                 /\ (0 <= c.num /\ c.num <= 100 * c.den) =>
                        (0 <= score.num /\ score.num <= score.den)
                 /\ tag.has_name => norm.out.value[i].keyword = tag.name

\* C21: error forms are all errors. For every OCR and tagging operation a
\* reply that shows a failure form (a non-200 status, or the vendor's error
\* form) ends the operation with an error, never with a text, a tag list or the
\* sentinel, and the error carries the vendor's message when the reply holds
\* one.
C21_ErrorFormsAreErrors ==
    (norm.fn \in {"ocr", "tags"}
     /\ (norm.reply.status /= 200 \/ norm.reply.form \in {"error", "error_nomsg"})) =>
       /\ norm.out.raised
       /\ (norm.reply.status = 200 /\ norm.reply.form = "error") =>
              norm.out.message = "quota exceeded"

\* C22: a malformed reply never crashes the caller. For every OCR and tagging
\* operation a 200 reply whose body is not JSON, or is an error form without
\* its message, or holds null where the array is expected, ends the operation
\* with the generic vendor error, never with a decoding, key or type exception
\* (and never with a value).
C22_MalformedReplyIsVendorError ==
    (norm.fn \in {"ocr", "tags"} /\ norm.reply.status = 200
     /\ norm.reply.form \in {"notjson", "error_nomsg", "badshape"}) =>
       norm.out.raised /\ norm.out.error = "VendorError"

\* C23: input form. For every OCR, tagging and speech operation an input that
\* starts with http:// or https:// is sent as the URL reference field, with
\* no file opened and no inline base64 field; any other input is opened as a
\* file and, once read, sent as the inline base64 field with no URL field;
\* a request holds exactly one of the two fields.
C23_InputForm ==
    norm.fn = "request" =>
       /\ norm.is_url =>
              /\ ~norm.out.opened
              /\ norm.out.sent /\ norm.out.url_field /\ ~norm.out.inline_field
       /\ ~norm.is_url =>
              /\ norm.out.opened
              /\ norm.file_ok =>
                     norm.out.sent /\ norm.out.inline_field /\ ~norm.out.url_field
       /\ norm.out.sent => (norm.out.url_field /= norm.out.inline_field)

\* C24: unsupported capability. generate_image of Gemini, Anthropic,
\* Perplexity, Ollama and LM Studio returns an error value, for every prompt
\* and options and with or without an API key, sends no network request and
\* leaves the provider's fields as they were.
C24_UnsupportedCapability ==
    (llm.fn = "generate_image"
     /\ llm.provider \in {"Gemini", "Anthropic", "Perplexity", "Ollama", "LMStudio"}) =>
       /\ llm.result.is_error
       /\ llm.sent = 0
       /\ llm.providers[llm.provider] = llm.before

C24_Witness ==
    /\ llm.fn = "generate_image" /\ llm.provider = "Anthropic"
    /\ llm.before.api_key = "sk-1" /\ llm.prompt = "a cat" /\ llm.options = "size"
    /\ llm.result.is_error /\ llm.sent = 0

\* what C25 asks of one Netease request made with a timestamp and a nonce
NeteaseSignedBeforeSent(req, timestamp, nonce) ==
    /\ ValuesOf(req.signed, <<"a", "p", "p", "I", "d">>) = {sg.self.api_key}
    /\ ValuesOf(req.signed, <<"t", "i", "m", "e", "s", "t", "a", "m", "p">>) = {timestamp}
    /\ ValuesOf(req.signed, <<"n", "o", "n", "c", "e">>) = {nonce}
    /\ \E k \in {<<"u", "r", "l">>, <<"i", "m", "a", "g", "e">>, <<"a", "u", "d", "i", "o">>} :
          ValuesOf(req.signed, k) = {sg.data}
    /\ ValuesOf(req.signed, <<"s", "i", "g", "n", "a", "t", "u", "r", "e">>) = {}
    /\ req.signed_text = sg.self.secret_key \o AscendingConcat(ItemSet(req.signed))
                         \o sg.self.secret_key
    /\ req.signature = Md5Hex(req.signed_text)
    /\ ItemSet(req.transmitted) =
          ItemSet(req.signed)
          \cup {<<<<"s", "i", "g", "n", "a", "t", "u", "r", "e">>, req.signature>>}
    /\ Len(req.transmitted) = Len(req.signed) + 1

\* C25: MD5 signing order. In every Netease operation appId, timestamp, nonce
\* and the payload field are in the parameters when the signature is computed
\* and the signature field is not; the parameters sent are the signed ones
\* plus signature; two requests with the same payload and a different nonce or
\* timestamp have different signed strings.
C25_Md5SigningOrder ==
    sg.fn = "netease_op" =>
       /\ NeteaseSignedBeforeSent(sg.req, sg.timestamp, sg.nonce)
       /\ NeteaseSignedBeforeSent(sg.req2, sg.timestamp2, sg.nonce2)
       /\ (sg.timestamp /= sg.timestamp2 \/ sg.nonce /= sg.nonce2) =>
              /\ sg.req.signed_text /= sg.req2.signed_text
              /\ sg.req.signature /= sg.req2.signature

C25_Witness ==
    /\ sg.fn = "netease_op" /\ sg.op = "speech_recognition"
    /\ sg.timestamp = sg.timestamp2 /\ sg.nonce /= sg.nonce2
    /\ sg.req.signed_text /= sg.req2.signed_text
    /\ Len(sg.req.transmitted) = 5

\* C26: fresh signing per request. Every request sent is signed by its own
\* call of the signer with the timestamp drawn for that request; a status
\* query of the Tencent poll loop is signed with the DescribeTaskStatus action
\* and the {TaskId} body, and the headers of the submit request or of an
\* earlier status query are not sent again.
C26_FreshSigningPerRequest ==
    /\ tc.signs = tc.requests
    /\ tc.requests \in {0, tc.queries + 1}
    /\ (tc.requests >= 1 /\ tc.queries = 0) =>
          /\ tc.headers = TencentGenerateSignature(TencentSelf, AsrParams, "asr",
                              "CreateRecTask", SubmitPayload, tc.sentAt, tc.utcoffset)
          /\ tc.headers = tc.submitHeaders
    /\ tc.queries >= 1 =>
          /\ tc.headers = TencentGenerateSignature(TencentSelf, AsrParams, "asr",
                              "DescribeTaskStatus", QueryPayload(tc.task_id), tc.sentAt,
                              tc.utcoffset)
          /\ tc.headers["X-TC-Action"] = "DescribeTaskStatus"
          /\ tc.headers["X-TC-Timestamp"] = ToString(tc.sentAt)
          /\ tc.body = "{\"TaskId\": " \o tc.task_id \o "}"
          /\ tc.headers /= tc.submitHeaders
          /\ tc.headers /= tc.prevHeaders
          /\ tc.headers["Authorization"] /= tc.prevHeaders["Authorization"]
          /\ tc.prevSentAt < tc.sentAt
          /\ tc.sentAt <= tc.clock

C26_Witness ==
    /\ tc.pc = "await_query" /\ tc.queries = 3 /\ tc.signs = 4
    /\ tc.prevHeaders["X-TC-Action"] = "DescribeTaskStatus"
    /\ tc.headers /= tc.prevHeaders

\* C27: a failed grant leaves the cache unchanged. When the grant request is
\* rejected get_access_token raises and access_token and token_expiry have the
\* values they had before the call; the call that follows attempts a grant
\* again, and no token, in particular not the earlier expired one, is returned
\* by the failed call.
C27_FailedGrantLeavesCache ==
    \A c \in DOMAIN call :
       /\ (call[c].pc = "done" /\ call[c].err = "grant_rejected") =>
             /\ access_token = call[c].tokAtCheck
             /\ token_expiry = call[c].checkExpiry
             /\ call[c].ret = NoToken
             /\ call[c].svcSent = 0
             /\ ~TokenValid(access_token, now, token_expiry)
       /\ (call[c].afterRejection /\ call[c].pc /= "check") =>
             /\ ~call[c].fresh
             /\ call[c].pc = "grant" \/ call[c].sent = 1
             /\ call[c].ret \in {NoToken, call[c].newTok}
             /\ call[c].ret /= NoToken => call[c].ret /= call[c].tokAtCheck

C27_Witness ==
    /\ call[1].pc = "done" /\ call[1].err = "grant_rejected"
    /\ call[1].afterRejection
    /\ call[1].expired /\ access_token = call[1].tokAtCheck /\ access_token /= NoToken
    /\ call[1].checkNow < now

\* what C28 asks of one Tencent request: the body, the headers, and the
\* canonical request and string to sign the signer built for it
Tc3SignedIsSent(body, headers, signed, service, secret_key) ==
    LET canonical ==
            "POST\n/\n\ncontent-type:" \o headers["Content-Type"] \o "\nhost:"
            \o headers["Host"] \o "\n\ncontent-type;host\n" \o Sha256Hex(body)
    IN  /\ signed.canonical_request = canonical
        /\ signed.string_to_sign =
              "TC3-HMAC-SHA256\n" \o headers["X-TC-Timestamp"] \o "\n"
              \o signed.credential_scope \o "\n" \o Sha256Hex(canonical)
        /\ headers["Authorization"] =
              "TC3-HMAC-SHA256 Credential=AKID/" \o signed.credential_scope
              \o ", SignedHeaders=content-type;host, Signature="
              \o HmacSha256Hex(TencentSigningKey(secret_key, signed.date, service),
                               signed.string_to_sign)

\* C28: TC3 signed values equal transmitted values. In every Tencent request
\* the body sent is the JSON text whose SHA-256 is in the canonical request,
\* the Host and Content-Type headers sent are the host and content-type of the
\* signed canonical headers, and X-TC-Timestamp is the timestamp of the string
\* to sign.
C28_Tc3SignedEqualsTransmitted ==
    sg.fn = "tencent_op" =>
       Tc3SignedIsSent(sg.req.data, sg.req.headers, sg.req.signed, sg.req.service,
                       sg.self.secret_key)

C28_Witness ==
    /\ sg.fn = "tencent_op" /\ sg.op = "ocr_general" /\ ~sg.is_url
    /\ sg.req.data = "{\"ImageBase64\": \"QUJD\"}"
    /\ sg.req.headers["Host"] = "ocr.tencentcloudapi.com"
    /\ sg.req.headers["X-TC-Timestamp"] = "1704067200"

\* C29: the ACS signature ignores nonce and timestamp. The Signature is a
\* function of the method, the secret and the business parameters only;
\* SignatureNonce and Timestamp are merged after it is computed, so two calls
\* with the same method, secret and business parameters yield the same
\* Signature while their SignatureNonce values differ.
C29_AcsSignatureIgnoresNonce ==
    sg.fn = "aliyun2" =>
       /\ ~sg.out.raised /\ ~sg.out2.raised
       /\ sg.out.signature = sg.out2.signature
       /\ sg.out.signature =
             Base64HmacSha1(sg.secret \o <<"&">>,
                            sg.method \o <<"&", "%", "2", "F", "&">>
                            \o Quote(JoinQuery(SortedItems(sg.params))))
       /\ ValuesOf(sg.out.params, <<"Signature">>) = {sg.out.signature}
       /\ ValuesOf(sg.out2.params, <<"Signature">>) = {sg.out2.signature}
       /\ ValuesOf(sg.out.params, <<"SignatureNonce">>) = {sg.nonce}
       /\ ValuesOf(sg.out2.params, <<"SignatureNonce">>) = {sg.nonce2}
       /\ ValuesOf(sg.out.params, <<"Timestamp">>) = {sg.date}
       /\ ValuesOf(sg.out2.params, <<"Timestamp">>) = {sg.date2}

\* the poll loop has been entered: a pass was counted, a wait was made or a
\* status query was sent
InPollLoop ==
    \/ tc.pc \in {"loop", "sleep", "query", "await_query"}
    \/ tc.i > 0 \/ tc.waits > 0 \/ tc.queries > 0

\* C30: no polling without a task id. If the submit request of
\* TencentClient.speech_recognition gets a non-200 reply, a reply without the
\* Response envelope, or a reply with no or a falsy TaskId, the operation ends
\* with an error before any wait and any status query; the poll loop is
\* entered only after a task id was obtained.
C30_NoPollingWithoutTaskId ==
    /\ (tc.submitReply.status /= 0
        /\ (\/ tc.submitReply.status /= 200
            \/ tc.submitReply.body \in {"noenv", "nodata", "notask", "task0"})) =>
          /\ tc.pc = "done"
          /\ tc.outcome \in {"HTTPError", "VendorError", "NoTaskId"}
          /\ tc.submitReply.status /= 200 => tc.outcome = "HTTPError"
          /\ tc.task_id = ""
          /\ tc.waits = 0 /\ tc.queries = 0 /\ tc.requests = 1
    /\ InPollLoop =>
          /\ tc.task_id /= ""
          /\ tc.submitReply = [status |-> 200, body |-> "task"]
    /\ tc.task_id = "" => ~InPollLoop

C30_Witness ==
    /\ tc.pc = "done" /\ tc.outcome = "NoTaskId"
    /\ tc.submitReply = [status |-> 200, body |-> "task0"]
    /\ tc.waits = 0 /\ tc.queries = 0 /\ tc.requests = 1

====
